---- MODULE Spec2Model ----
(***************************************************************************)
(* The OCR gateway of app.py: the single-image pipeline (extract_text),    *)
(* the batch pipeline (batch_extract), the process-wide result cache       *)
(* (ocr_cache) and the OCR adapter (process_image).                        *)
(*                                                                         *)
(* Both handlers are coroutines run by one event loop.  A handler runs     *)
(* without interruption between two of its await expressions, so every     *)
(* action below is one such run: from the arrival of a request to its      *)
(* first await (the upload read), and from the resumption after a read to  *)
(* the next await or to the response.  process_image is an ordinary        *)
(* (blocking) call and contains no suspension point.                       *)
(*                                                                         *)
(* Text is a sequence of one-character strings.  A confidence is an        *)
(* integer number of hundredths (70 stands for 0.70).  The clock is not   *)
(* part of the state: what a handler computes from it, the whole          *)
(* milliseconds elapsed since its start_time, is an input of the step.    *)
(*                                                                         *)
(* Spec and FairSpec are the application.  AdapterSpec runs the            *)
(* aggregation of process_image alone on the rows an engine can return,    *)
(* NormalizerSpec runs clean_text alone on strings.                        *)
(***************************************************************************)
EXTENDS Integers, Sequences, FiniteSets, TLC

\* ------------------------------------------------------------- bounds
MaxReq == 2          \* requests received in one behaviour
MaxMs == 1           \* longest time a request is seen to take, in ms
MaxBatch == 1        \* longest freely chosen batch (longer ones are fixed)
MaxBatchReq == 1     \* batch requests received in one behaviour
MaxTokens == 2       \* longest freely chosen sequence of engine rows
MaxLen == 4          \* longest freely chosen string given to clean_text

\* ------------------------------------------------------ configuration
MAX_FILE_SIZE == 10 * 1024 * 1024
ALLOWED_MIME_TYPES == {"image/jpeg", "image/jpg", "image/png", "image/gif"}
BATCH_LIMIT == 10

\* Python's None / JSON null, and a string where None is the alternative.
None == [null |-> TRUE]
Str(s) == [str |-> s]

\* --------------------------------------------------------------- text
Whitespace == {" ", "\t", "\n"}

\* The positions of s that hold no whitespace.
Inked(s) == {k \in 1..Len(s) : s[k] \notin Whitespace}

Lowest(S) == CHOOSE x \in S : \A y \in S : x <= y
Highest(S) == CHOOSE x \in S : \A y \in S : x >= y

\* str.strip(): s from its first to its last non-whitespace character.
strip(s) ==
    IF Inked(s) = {} THEN <<>> ELSE SubSeq(s, Lowest(Inked(s)), Highest(Inked(s)))

\* Where the maximal runs of non-whitespace of s begin and end.
WordStarts(s) == {k \in Inked(s) : k = 1 \/ s[k - 1] \in Whitespace}
WordEnds(s) == {k \in Inked(s) : k = Len(s) \/ s[k + 1] \in Whitespace}

\* The n-th smallest element of S.
Nth(S, n) == CHOOSE x \in S : Cardinality({y \in S : y <= x}) = n

\* str.split() without arguments: the maximal runs of non-whitespace, in order.
split(s) ==
    [n \in 1..Cardinality(WordStarts(s)) |->
        SubSeq(s, Nth(WordStarts(s), n), Nth(WordEnds(s), n))]

\* sep.join(parts)
join(sep, parts) ==
    LET joined[k \in 0..Len(parts)] ==
            IF k = 0 THEN <<>>
            ELSE IF k = 1 THEN parts[1]
            ELSE joined[k - 1] \o sep \o parts[k]
    IN  joined[Len(parts)]

\* Mutant of clean_text: the ends are trimmed, the inside is left alone.
clean_text_StripOnly(text) == strip(text)

\* lines 100-103
clean_text(text) ==
    IF text = <<>> THEN <<>> ELSE join(<<" ">>, split(text))

\* ----------------------------------------------------------- uploads
(* An upload body is named by a letter and described by what the          *)
(* libraries read from it: its length, the image format its header        *)
(* announces ("none" when PIL cannot identify it), the decoded size, the  *)
(* tokens Tesseract emits for it, and whether recognising it can exceed   *)
(* the engine's 10 s budget.                                              *)
Tok(conf, text) == [conf |-> conf, text |-> text]

ContentA ==
    [seed |-> 1, len |-> MAX_FILE_SIZE, magic |-> "PNG", width |-> 4000, height |-> 3000,
     heavy |-> FALSE,
     tokens |-> << Tok(-1, <<>>), Tok(50, <<"b">>), Tok(90, <<" ", "c", " ">>) >>]
ContentH ==
    [seed |-> 2, len |-> 4096, magic |-> "JPEG", width |-> 1024, height |-> 768,
     heavy |-> TRUE,
     tokens |-> << Tok(96, <<"H", "i">>), Tok(95, <<" ">>), Tok(91, <<"y", "o", "u">>),
                   Tok(-1, <<"z">>), Tok(0, <<"!">>), Tok(100, <<"\t", "k">>) >>]
ContentX ==
    [seed |-> 3, len |-> 512, magic |-> "none", width |-> 0, height |-> 0,
     heavy |-> FALSE, tokens |-> << >>]
ContentO ==
    [seed |-> 4, len |-> MAX_FILE_SIZE + 1, magic |-> "GIF", width |-> 4000, height |-> 3000,
     heavy |-> FALSE, tokens |-> << Tok(1, <<"o">>), Tok(2, <<"k">>) >>]

Contents == {"A", "H", "X", "O"}

\* What the bytes named content hold.
Bytes(content) ==
    CASE content = "A" -> ContentA
      [] content = "H" -> ContentH
      [] content = "X" -> ContentX
      [] content = "O" -> ContentO

\* An UploadFile: the declared name and type, and the body.
Upload(filename, content_type, content) ==
    [filename |-> filename, content_type |-> content_type, content |-> content]

\* The uploads a client posts to /extract-text.
SingleUploads ==
    {Upload("a.png", "image/png", "A"),
     Upload("a.jpg", "image/jpeg", "A"),
     Upload("a.txt", "text/plain", "A"),
     Upload("h.jpg", "image/jpeg", "H"),
     Upload("x.png", "image/png", "X"),
     Upload("o.gif", "image/gif", "O"),
     Upload("o.txt", "text/plain", "O")}

\* --------------------------------------------------- helper functions
(* hashlib.sha256(content).hexdigest(): a deterministic digest of the     *)
(* bytes, here of the fields that stand for them.  It has no collision    *)
(* among Contents, as SHA-256 has none in practice.                       *)
HashSpace == 65521
calculate_hash(content) ==
    (Bytes(content).len * 31 + Bytes(content).seed * 4099
        + Len(Bytes(content).tokens)) % HashSpace

\* Image.open(image_stream): the decoded header, or the exception raised.
Image_open(content) ==
    IF Bytes(content).magic = "none"
    THEN [raised |-> "UnidentifiedImageError",
          message |-> "cannot identify image file"]
    ELSE [raised |-> "",
          size |-> <<Bytes(content).width, Bytes(content).height>>,
          format |-> Bytes(content).magic]

\* The engine on one upload: it answers, or it exceeds timeout=10.
EngineOutcomes(content) ==
    IF Bytes(content).heavy THEN {"ok", "timeout"} ELSE {"ok"}

\* pytesseract.image_to_data(pil_image, ...): the rows of data['conf'], data['text'].
image_to_data(content) == Bytes(content).tokens

\* Mutant of Kept: the confidence of a row is not looked at.
Kept_AnyConf(token) == strip(token.text) # <<>>

\* The test of lines 118-120 on one token.
Kept(token) == token.conf > -1 /\ strip(token.text) # <<>>

\* The loop of lines 117-122 over data['conf'] / data['text'].
text_parts(tokens) ==
    LET kept == SelectSeq(tokens, Kept)
    IN  [k \in 1..Len(kept) |-> strip(kept[k].text)]

confidences(tokens) ==
    LET kept == SelectSeq(tokens, Kept)
    IN  [k \in 1..Len(kept) |-> kept[k].conf]

sum(xs) ==
    LET total[k \in 0..Len(xs)] == IF k = 0 THEN 0 ELSE total[k - 1] + xs[k]
    IN  total[Len(xs)]

(* round(s / n / 100.0, 2) in hundredths.  Away from a tie it is the      *)
(* nearest integer to s / n.  At a tie, s / n = q + 1/2, the double        *)
(* nearest to (q + 0.5) / 100 decides: RoundsUp lists the q for which it   *)
(* lies above the tie.                                                     *)
RoundsUp ==
    {0, 2, 3, 5, 6, 8, 9, 11, 13, 16, 19, 22, 25, 26, 27, 31, 32, 33, 37, 38,
     39, 40, 44, 45, 46, 50, 51, 52, 53, 54, 55, 63, 64, 65, 66, 67, 68, 75,
     76, 77, 78, 79, 80, 87, 88, 89, 90, 91, 92, 93}
round2(s, n) ==
    LET q == s \div n
        r == s % n
    IN  IF 2 * r < n THEN q
        ELSE IF 2 * r > n THEN q + 1
        ELSE IF q \in RoundsUp THEN q + 1 ELSE q

(* Lines 124-135 on the kept texts and confidences.  (The arguments are   *)
(* bound by a set constructor, which TLC evaluates once; it evaluates a   *)
(* LET anew at each use when it computes ENABLED.)                        *)
aggregate(pil_image, text_parts_, confidences_) ==
    CHOOSE result \in
        {[raised |-> "",
          text |-> clean_text(full_text),
          confidence |-> IF confs # <<>> THEN round2(sum(confs), Len(confs)) ELSE 0,
          metadata |-> [width |-> pil_image.size[1],
                        height |-> pil_image.size[2],
                        format |-> pil_image.format]] :
            full_text \in {join(<<" ">>, parts) : parts \in {text_parts_}},
            confs \in {confidences_}} : TRUE

(* Lines 112-135 for each body whose recognition finishes in time: the    *)
(* rows are filtered, joined, cleaned and averaged once per body, the     *)
(* engine being a function of the bytes.                                  *)
Recognised ==
    [content \in Contents |->
        LET pil_image == Image_open(content)
        IN  IF pil_image.raised # "" THEN pil_image
            ELSE aggregate(pil_image, text_parts(image_to_data(content)),
                           confidences(image_to_data(content)))]

process_image(content, engine) ==
    LET pil_image == Image_open(content)
    IN  IF pil_image.raised # "" THEN pil_image
        ELSE IF engine = "timeout"
        THEN [raised |-> "RuntimeError", message |-> "Tesseract process timeout"]
        ELSE Recognised[content]

\* ------------------------------------------------------------- state
VARIABLES
    ocr_cache,   \* file_hash -> stored response payload (line 94)
    reqs,        \* the requests received so far, in order of arrival
    stores,      \* history: file_hash -> the payloads line 197 stored, in order
    tess_data,   \* process_image alone: the rows the engine returned (line 112)
    ocr,         \* process_image alone: the dictionary it returns (lines 127-135)
    given_text,  \* clean_text alone: the string it is given
    cleaned      \* clean_text alone: what successive calls returned

app_vars == <<ocr_cache, reqs, stores>>
adapter_vars == <<tess_data, ocr>>
normalizer_vars == <<given_text, cleaned>>
vars == <<ocr_cache, reqs, stores, tess_data, ocr, given_text, cleaned>>

(* int((time.time() - start_time) * 1000): the whole milliseconds since   *)
(* line 151 read the clock, any number the run can have taken.            *)
ElapsedMs == 0..MaxMs

\* raise HTTPException(status_code, detail), as custom_http_exception_handler
\* answers it (lines 76-81).
custom_http_exception_handler(status_code, detail) ==
    [status_code |-> status_code,
     content |-> [success |-> FALSE, error |-> detail]]

\* JSONResponse(content=...) with the default status.
JSONResponse(content) == [status_code |-> 200, content |-> content]

\* Mutant of MimeAllowed: every declared type passes.
MimeAllowed_Always(content_type) == TRUE

\* line 153
MimeAllowed(content_type) == content_type \in ALLOWED_MIME_TYPES

\* Mutant of SizeExceeded: a body of exactly the maximum is refused too.
SizeExceeded_OffByOne(content) == Bytes(content).len >= MAX_FILE_SIZE

\* line 160
SizeExceeded(content) == Bytes(content).len > MAX_FILE_SIZE

\* Mutant of CacheHit: the lookup always misses.
CacheHit_Never(cache, file_hash) == FALSE

\* line 167
CacheHit(cache, file_hash) == file_hash \in DOMAIN cache

\* Mutant of HitResponse: the hit answers a fresh payload instead of the entry.
HitResponse_Blank(cache, file_hash, ms) ==
    [cache[file_hash] EXCEPT !.cached = TRUE, !.processing_time_ms = ms,
                             !.text = <<>>, !.confidence = 0]

\* Mutant of HitResponse: the entry is answered as it was stored.
HitResponse_NotAnnotated(cache, file_hash, ms) == cache[file_hash]

\* lines 168-172: a copy of the entry, two fields replaced.
HitResponse(cache, file_hash, ms) ==
    [cache[file_hash] EXCEPT !.cached = TRUE, !.processing_time_ms = ms]

\* Mutant of CacheAfterHit: update() is applied to the entry itself.
CacheAfterHit_Aliased(cache, file_hash, response) ==
    [cache EXCEPT ![file_hash] = response]

(* lines 168-172 as they leave the cache: response is a copy of the entry *)
(* (dict.copy()), so the update() that made it did not touch the entry.   *)
CacheAfterHit(cache, file_hash, response) == cache

\* lines 188-195
response_payload(result, ms) ==
    [success |-> TRUE,
     text |-> result.text,
     confidence |-> result.confidence,
     metadata |-> result.metadata,
     cached |-> FALSE,
     processing_time_ms |-> ms]

\* Mutant of CacheStore: the dictionary is rebound to the new entry alone.
CacheStore_Replaces(cache, file_hash, payload) ==
    [h \in {file_hash} |-> payload]

\* Mutant of CacheStore: the payload is not kept.
CacheStore_Dropped(cache, file_hash, payload) == cache

\* line 197: ocr_cache[file_hash] = response_payload
CacheStore(cache, file_hash, payload) ==
    [h \in DOMAIN cache \cup {file_hash} |->
        IF h = file_hash THEN payload ELSE cache[h]]

(* A request as it arrives: nothing of the handler has run yet.  The last  *)
(* fields are history: the statements run so far (steps), whether the     *)
(* fingerprint was a key of the cache when line 167 looked it up (lookup),*)
(* the calls of process_image made (engine), what the last call raised    *)
(* (raised), and whether a batch item was processed while its fingerprint *)
(* was a key of the cache (saw_cached).                                   *)
NewRequest(kind) ==
    [kind |-> kind, pc |-> "start",
     content_type |-> "", content |-> "", filename |-> "",
     images |-> <<>>, idx |-> 0, batch_results |-> <<>>,
     response |-> None,
     steps |-> <<>>, lookup |-> "", engine |-> 0, raised |-> "",
     saw_cached |-> FALSE]

\* Mutant of Finish: the response is kept but the handler does not return.
Finish_KeepsRunning(r, response, steps) ==
    [r EXCEPT !.response = response, !.steps = r.steps \o steps]

\* return / raise: the handler ends with this response.
Finish(r, response, steps) ==
    [r EXCEPT !.pc = "done", !.response = response, !.steps = r.steps \o steps]

(* extract_text, lines 151-159: the declared type is checked, and the     *)
(* handler suspends on image.read().                                      *)
extract_text_start(r) ==
    IF ~MimeAllowed(r.content_type)
    THEN Finish(r,
                custom_http_exception_handler(400, "Invalid format. Allowed: ALLOWED_MIME_TYPES"),
                <<"mime_check">>)
    ELSE [r EXCEPT !.pc = "read", !.steps = <<"mime_check", "read">>]

(* Mutant of extract_text_resume: the payload is assembled and stored      *)
(* before the outcome of process_image is looked at, so a failure leaves  *)
(* an entry behind.                                                       *)
extract_text_resume_StoresFirst(r, cache, engine, ms) ==
    LET content == r.content
        file_hash == calculate_hash(content)
        seen == [r EXCEPT !.lookup = IF file_hash \in DOMAIN cache
                                     THEN "hit" ELSE "miss"]
        result == process_image(content, engine)
        ran == [seen EXCEPT !.engine = 1, !.raised = result.raised]
        failure == [success |-> FALSE, text |-> <<>>, confidence |-> 0,
                    metadata |-> None, cached |-> FALSE, processing_time_ms |-> ms]
    IN  IF SizeExceeded(content)
        THEN [req |-> Finish(r,
                        custom_http_exception_handler(413, "File size exceeds 10MB limit"),
                        <<"size_check">>),
              cache |-> cache, stored |-> <<>>]
        ELSE IF CacheHit(cache, file_hash)
        THEN [req |-> Finish(seen,
                        JSONResponse(HitResponse(cache, file_hash, ms)),
                        <<"size_check", "calculate_hash", "lookup", "respond">>),
              cache |-> CacheAfterHit(cache, file_hash,
                                      HitResponse(cache, file_hash, ms)),
              stored |-> <<>>]
        ELSE IF result.raised = "UnidentifiedImageError"
        THEN [req |-> Finish(ran,
                        custom_http_exception_handler(400, "Corrupt or unreadable image file"),
                        <<"size_check", "calculate_hash", "lookup", "process_image">>),
              cache |-> CacheStore(cache, file_hash, failure), stored |-> <<>>]
        ELSE IF result.raised # ""
        THEN [req |-> Finish(ran,
                        custom_http_exception_handler(500, "Internal Processing Error: " \o result.message),
                        <<"size_check", "calculate_hash", "lookup", "process_image">>),
              cache |-> CacheStore(cache, file_hash, failure), stored |-> <<>>]
        ELSE [req |-> Finish(ran, JSONResponse(response_payload(result, ms)),
                        <<"size_check", "calculate_hash", "lookup", "process_image",
                          "store", "respond">>),
              cache |-> CacheStore(cache, file_hash, response_payload(result, ms)),
              stored |-> <<[file_hash |-> file_hash,
                            payload |-> response_payload(result, ms)]>>]

(* extract_text, lines 160-199, run when image.read() has returned: the   *)
(* request as it ends and the cache as it leaves it.  engine is what the  *)
(* OCR engine does if it is asked, ms the time elapsed at line 171 or 194.*)
extract_text_resume(r, cache, engine, ms) ==
    LET content == r.content
        file_hash == calculate_hash(content)
        hit == CacheHit(cache, file_hash)
        seen == [r EXCEPT !.lookup = IF file_hash \in DOMAIN cache
                                     THEN "hit" ELSE "miss"]
        result == process_image(content, engine)
        ran == [seen EXCEPT !.engine = 1, !.raised = result.raised]
        payload == response_payload(result, ms)
    IN  IF SizeExceeded(content)
        THEN [req |-> Finish(r,
                        custom_http_exception_handler(413, "File size exceeds 10MB limit"),
                        <<"size_check">>),
              cache |-> cache, stored |-> <<>>]
        ELSE IF hit
        THEN [req |-> Finish(seen,
                        JSONResponse(HitResponse(cache, file_hash, ms)),
                        <<"size_check", "calculate_hash", "lookup", "respond">>),
              cache |-> CacheAfterHit(cache, file_hash,
                                      HitResponse(cache, file_hash, ms)),
              stored |-> <<>>]
        ELSE IF result.raised = "UnidentifiedImageError"
        THEN [req |-> Finish(ran,
                        custom_http_exception_handler(400, "Corrupt or unreadable image file"),
                        <<"size_check", "calculate_hash", "lookup", "process_image">>),
              cache |-> cache, stored |-> <<>>]
        ELSE IF result.raised # ""
        THEN [req |-> Finish(ran,
                        custom_http_exception_handler(500, "Internal Processing Error: " \o result.message),
                        <<"size_check", "calculate_hash", "lookup", "process_image">>),
              cache |-> cache, stored |-> <<>>]
        ELSE [req |-> Finish(ran, JSONResponse(payload),
                        <<"size_check", "calculate_hash", "lookup", "process_image",
                          "store", "respond">>),
              cache |-> CacheStore(cache, file_hash, payload),
              stored |-> <<[file_hash |-> file_hash, payload |-> payload]>>]

\* The history after the stores a handler run made.
Logged(log, stored) ==
    LET keys == {stored[k].file_hash : k \in 1..Len(stored)}
        Under(h) == SelectSeq(stored, LAMBDA e : e.file_hash = h)
    IN  [h \in DOMAIN log \cup keys |->
            (IF h \in DOMAIN log THEN log[h] ELSE <<>>)
                \o [k \in 1..Len(Under(h)) |-> Under(h)[k].payload]]

\* POST /extract-text arrives and runs to its first await.
ExtractReceive ==
    /\ Len(reqs) < MaxReq
    /\ \E image \in SingleUploads :
          reqs' = Append(reqs,
              extract_text_start(
                  [NewRequest("single") EXCEPT !.content_type = image.content_type,
                                               !.content = image.content,
                                               !.filename = image.filename]))
    /\ UNCHANGED <<ocr_cache, stores, adapter_vars, normalizer_vars>>

\* image.read() has returned: the rest of extract_text runs.
ExtractResume(i) ==
    /\ i \in 1..Len(reqs)
    /\ reqs[i].kind = "single"
    /\ reqs[i].pc = "read"
    /\ \E engine \in EngineOutcomes(reqs[i].content), ms \in ElapsedMs :
          \E out \in {extract_text_resume(reqs[i], ocr_cache, engine, ms)} :
              /\ reqs' = [reqs EXCEPT ![i] = out.req]
              /\ ocr_cache' = out.cache
              /\ stores' = Logged(stores, out.stored)
    /\ UNCHANGED <<adapter_vars, normalizer_vars>>

\* ------------------------------------------------------ batch_extract
\* The uploads a client puts into a batch; none is validated per item.
BatchUploads ==
    {Upload("a.png", "image/png", "A"),
     Upload("h.txt", "text/plain", "H")}

LongCycle ==
    << Upload("a.png", "image/png", "A"),
       Upload("x.png", "image/png", "X"),
       Upload("o.gif", "image/gif", "O"),
       Upload("a.jpg", "image/jpeg", "A"),
       Upload("x.txt", "text/plain", "X") >>

\* A batch of n uploads: LongCycle, repeated.
LongBatch(n) ==
    [k \in 1..n |-> LongCycle[((k - 1) % Len(LongCycle)) + 1]]

RECURSIVE SeqsUpTo(_, _)
SeqsUpTo(S, n) ==
    IF n = 0 THEN {<<>>}
    ELSE LET shorter == SeqsUpTo(S, n - 1)
         IN  shorter \cup {Append(q, x) : q \in shorter, x \in S}

(* The batches a client posts: every short one, one at the limit, one     *)
(* above.  The field is required (File(...)): a request without any       *)
(* upload is answered 422 by the framework and never reaches the handler. *)
Batches ==
    (SeqsUpTo(BatchUploads, MaxBatch) \ {<<>>})
        \cup {LongBatch(BATCH_LIMIT), LongBatch(BATCH_LIMIT + 1)}

\* Mutant of BatchLimitExceeded: a batch of exactly the limit is refused too.
BatchLimitExceeded_OffByOne(images) == Len(images) >= BATCH_LIMIT

\* line 210
BatchLimitExceeded(images) == Len(images) > BATCH_LIMIT

\* lines 219-244, one pass of the loop body once img.read() has returned.
batch_item(img, engine) ==
    LET data == process_image(img.content, engine)
        ocr_response_obj ==
            [success |-> TRUE,
             text |-> data.text,
             confidence |-> data.confidence,
             metadata |-> data.metadata,
             cached |-> FALSE,
             processing_time_ms |-> 0]
    IN  IF data.raised = ""
        THEN [filename |-> img.filename, success |-> TRUE,
              data |-> ocr_response_obj, error |-> None]
        ELSE [filename |-> img.filename, success |-> FALSE,
              data |-> None, error |-> Str(data.message)]

\* line 246
BatchResponse(batch_results) == JSONResponse([batch_results |-> batch_results])

(* batch_extract, lines 210-220: the count is checked, and the handler    *)
(* suspends on the read of the first upload, or answers an empty batch.   *)
batch_extract_start(r) ==
    IF BatchLimitExceeded(r.images)
    THEN Finish(r,
                custom_http_exception_handler(400, "Batch limit exceeded (Max 10 images)"),
                <<"limit_check">>)
    ELSE IF r.images = <<>>
    THEN Finish(r, BatchResponse(<<>>), <<"limit_check", "respond">>)
    ELSE [r EXCEPT !.pc = "read", !.idx = 1, !.steps = <<"limit_check", "read">>]

(* Mutant of batch_extract_resume: the exception of an item is not kept    *)
(* inside the loop, and the batch ends at the first item that fails.      *)
batch_extract_resume_Aborts(r, cache, engine) ==
    LET img == r.images[r.idx]
        item == batch_item(img, engine)
        r1 == [r EXCEPT !.batch_results = Append(r.batch_results, item),
                        !.engine = r.engine + 1,
                        !.raised = process_image(img.content, engine).raised,
                        !.saw_cached = r.saw_cached
                            \/ calculate_hash(img.content) \in DOMAIN cache]
    IN  [req |-> IF r.idx = Len(r.images) \/ ~item.success
                 THEN Finish(r1, BatchResponse(r1.batch_results),
                             <<"process_image", "respond">>)
                 ELSE [r1 EXCEPT !.idx = r.idx + 1,
                                 !.steps = r.steps \o <<"process_image", "read">>],
         cache |-> cache]

(* Mutant of batch_extract_resume: the loop uses the cache as the          *)
(* single-image pipeline does, answering a known fingerprint from it and  *)
(* storing what it computes.                                              *)
batch_extract_resume_UsesCache(r, cache, engine) ==
    LET img == r.images[r.idx]
        file_hash == calculate_hash(img.content)
        known == file_hash \in DOMAIN cache
        item == IF known
                THEN [filename |-> img.filename, success |-> TRUE,
                      data |-> cache[file_hash], error |-> None]
                ELSE batch_item(img, engine)
        r1 == [r EXCEPT !.batch_results = Append(r.batch_results, item),
                        !.engine = IF known THEN r.engine ELSE r.engine + 1,
                        !.saw_cached = r.saw_cached \/ known]
    IN  [req |-> IF r.idx = Len(r.images)
                 THEN Finish(r1, BatchResponse(r1.batch_results),
                             <<"process_image", "respond">>)
                 ELSE [r1 EXCEPT !.idx = r.idx + 1,
                                 !.steps = r.steps \o <<"process_image", "read">>],
         cache |-> IF item.success /\ ~known
                   THEN CacheStore(cache, file_hash, item.data) ELSE cache]

(* batch_extract, lines 220-246, run when img.read() has returned: the    *)
(* item is recognised and recorded, then the loop suspends on the next    *)
(* read or the handler answers.  The request as it is left, and the cache *)
(* as the run leaves it: no line of the loop names ocr_cache.             *)
batch_extract_resume(r, cache, engine) ==
    LET img == r.images[r.idx]
        item == batch_item(img, engine)
        r1 == [r EXCEPT !.batch_results = Append(r.batch_results, item),
                        !.engine = r.engine + 1,
                        !.raised = process_image(img.content, engine).raised,
                        !.saw_cached = r.saw_cached
                            \/ calculate_hash(img.content) \in DOMAIN cache]
    IN  [req |-> IF r.idx = Len(r.images)
                 THEN Finish(r1, BatchResponse(r1.batch_results),
                             <<"process_image", "respond">>)
                 ELSE [r1 EXCEPT !.idx = r.idx + 1,
                                 !.steps = r.steps \o <<"process_image", "read">>],
         cache |-> cache]

NumBatch == Cardinality({i \in 1..Len(reqs) : reqs[i].kind = "batch"})

\* POST /batch-extract arrives and runs to its first await.
BatchReceive ==
    /\ Len(reqs) < MaxReq
    /\ NumBatch < MaxBatchReq
    /\ \E images \in Batches :
          reqs' = Append(reqs,
              batch_extract_start([NewRequest("batch") EXCEPT !.images = images]))
    /\ UNCHANGED <<ocr_cache, stores, adapter_vars, normalizer_vars>>

\* img.read() has returned: one item of the batch is processed.
BatchResume(i) ==
    /\ i \in 1..Len(reqs)
    /\ reqs[i].kind = "batch"
    /\ reqs[i].pc = "read"
    /\ \E engine \in EngineOutcomes(reqs[i].images[reqs[i].idx].content) :
          \E out \in {batch_extract_resume(reqs[i], ocr_cache, engine)} :
              /\ reqs' = [reqs EXCEPT ![i] = out.req]
              /\ ocr_cache' = out.cache
    /\ UNCHANGED <<stores, adapter_vars, normalizer_vars>>

\* The application as it starts; the functions run alone are not in use.
AppIdle ==
    /\ ocr_cache = <<>>
    /\ reqs = <<>>
    /\ stores = <<>>

AdapterIdle == tess_data = <<>> /\ ocr = None
NormalizerIdle == given_text = <<>> /\ cleaned = <<>>

Init ==
    /\ AppIdle
    /\ AdapterIdle
    /\ NormalizerIdle

Next ==
    \/ ExtractReceive
    \/ \E i \in 1..Len(reqs) : ExtractResume(i)
    \/ BatchReceive
    \/ \E i \in 1..Len(reqs) : BatchResume(i)

Spec == Init /\ [][Next]_vars

(* The event loop resumes every handler whose read has returned; nothing  *)
(* obliges a client to send a request.                                    *)
FairSpec ==
    /\ Spec
    /\ \A i \in 1..MaxReq : WF_vars(ExtractResume(i)) /\ WF_vars(BatchResume(i))

\* ------------------------------------------------ process_image alone
(* The rows image_to_data can return for an image: data['conf'][i] is -1  *)
(* for a row that is no word and a percentage otherwise, data['text'][i]  *)
(* any string, with blanks around or inside it.                           *)
TokenConfs == {-1, 0, 50, 51, 100}
TokenTexts ==
    {<<>>, <<" ">>, <<"b">>, <<" ", "c", " ">>, <<"a", " ", " ", "b">>}
Tokens == {Tok(conf, txt) : conf \in TokenConfs, txt \in TokenTexts}

\* Three rows of which the first is no word and the last is padded.
SampleRows ==
    << Tok(-1, <<"a">>), Tok(50, <<"b">>), Tok(90, <<" ", "c", " ">>) >>

TokenSeqs == SeqsUpTo(Tokens, MaxTokens) \cup {SampleRows}

\* An image that Image.open accepts (lines 106-110).
SamplePil == Image_open("A")

AdapterInit ==
    /\ AppIdle
    /\ NormalizerIdle
    /\ tess_data \in TokenSeqs
    /\ ocr = None

\* Lines 114-135 run on the rows.
Aggregate ==
    /\ ocr = None
    /\ ocr' = aggregate(SamplePil, text_parts(tess_data), confidences(tess_data))
    /\ UNCHANGED <<tess_data, app_vars, normalizer_vars>>

AdapterNext == Aggregate

AdapterSpec == AdapterInit /\ [][AdapterNext]_vars

\* --------------------------------------------------- clean_text alone
\* The characters of the strings: the three kinds of blank and two letters.
Alphabet == Whitespace \cup {"a", "b"}

SampleText ==
    <<" ", " ", "a", "\n", "\t", "b", " ", " ", " ", "c", " ">>

Strings == SeqsUpTo(Alphabet, MaxLen) \cup {SampleText}

NormalizerInit ==
    /\ AppIdle
    /\ AdapterIdle
    /\ given_text \in Strings
    /\ cleaned = <<>>

\* clean_text(text)
Normalize ==
    /\ cleaned = <<>>
    /\ cleaned' = <<clean_text(given_text)>>
    /\ UNCHANGED <<given_text, app_vars, adapter_vars>>

\* clean_text applied to what clean_text returned
NormalizeAgain ==
    /\ Len(cleaned) = 1
    /\ cleaned' = Append(cleaned, clean_text(cleaned[1]))
    /\ UNCHANGED <<given_text, app_vars, adapter_vars>>

NormalizerNext == Normalize \/ NormalizeAgain

NormalizerSpec == NormalizerInit /\ [][NormalizerNext]_vars

\* ============================================================ claims
ReqIds == 1..Len(reqs)
Single(i) == reqs[i].kind = "single"
Batch(i) == reqs[i].kind = "batch"
Done(i) == reqs[i].pc = "done"
Status(i) == reqs[i].response.status_code
Body(i) == reqs[i].response.content
Succeeded(i) == Done(i) /\ Status(i) = 200
Failed(i) == Done(i) /\ Status(i) # 200

(* C1: a single-image request that passed validation and found its        *)
(* fingerprint among the keys of the cache at lookup time ends with a     *)
(* success response carrying cached = true, and process_image was not     *)
(* called for it.                                                         *)
C1_HitSkipsEngine ==
    \A i \in ReqIds :
        (Single(i) /\ Done(i) /\ reqs[i].lookup = "hit") =>
            /\ Status(i) = 200
            /\ Body(i).success = TRUE
            /\ Body(i).cached = TRUE
            /\ reqs[i].engine = 0
            /\ "process_image" \notin {reqs[i].steps[k] : k \in DOMAIN reqs[i].steps}

C1_Witness ==
    \E i \in ReqIds :
        /\ Single(i) /\ Done(i) /\ reqs[i].lookup = "hit"
        /\ Status(i) = 200 /\ Body(i).cached = TRUE /\ reqs[i].engine = 0

SameBytes(i, j) ==
    /\ i # j /\ Single(i) /\ Single(j)
    /\ calculate_hash(reqs[i].content) = calculate_hash(reqs[j].content)

C3_AtMostOneStore ==
    /\ \A h \in DOMAIN stores : Len(stores[h]) <= 1
    /\ \A i, j \in ReqIds :
           (/\ SameBytes(i, j) /\ Done(i) /\ Done(j)
            /\ reqs[i].lookup = "miss" /\ reqs[j].lookup = "miss")
               => (Failed(i) \/ Failed(j))

(* Two overlapping requests for the same bytes: i arrived first and was   *)
(* still suspended on its read while j missed, recognised and stored;     *)
(* resumed after that, i hit.                                             *)
C3_Witness ==
    \E i, j \in ReqIds :
        /\ i < j /\ SameBytes(i, j)
        /\ Succeeded(j) /\ reqs[j].lookup = "miss" /\ reqs[j].engine = 1
        /\ Succeeded(i) /\ reqs[i].lookup = "hit" /\ reqs[i].engine = 0
        /\ Len(stores[calculate_hash(reqs[i].content)]) = 1

(* C3 as the specification states it: two concurrent requests for the     *)
(* same never-seen bytes, both past their read, end with two stores under *)
(* the one fingerprint.  Checked from the very situation the claim        *)
(* describes, with every suspended handler resumed.                       *)
TwoFreshSuspended ==
    \E i, j \in ReqIds :
        /\ SameBytes(i, j)
        /\ reqs[i].pc = "read" /\ reqs[j].pc = "read"
        /\ reqs[i].content = "A"
        /\ calculate_hash(reqs[i].content) \notin DOMAIN ocr_cache

DoubleStore == \E h \in DOMAIN stores : Len(stores[h]) >= 2

C3_Original == TwoFreshSuspended ~> DoubleStore

(* C4: a single-image request that ends in a failure leaves the cache as  *)
(* it found it: no step of the request, from its arrival to its failure   *)
(* response, adds a key or changes an entry.                              *)
StepsOf(i) == i > Len(reqs) \/ reqs'[i] # reqs[i]

C4_NothingCachedOnFailure ==
    [][\A i \in 1..Len(reqs') :
          (/\ reqs'[i].kind = "single"
           /\ StepsOf(i)
           /\ ~(reqs'[i].pc = "done" /\ reqs'[i].response.status_code = 200))
              => ocr_cache' = ocr_cache]_vars

\* An undecodable upload and a timed-out one have both failed; nothing is cached.
C4_Witness ==
    /\ DOMAIN ocr_cache = {}
    /\ \E i, j \in ReqIds :
          /\ Single(i) /\ Failed(i) /\ reqs[i].raised = "UnidentifiedImageError"
          /\ Single(j) /\ Failed(j) /\ reqs[j].raised = "RuntimeError"

(* C5: the declared type is checked before the size, and both before the  *)
(* fingerprint, the lookup and process_image.  A request whose type is    *)
(* not allowed ran nothing but the type check and is refused with the     *)
(* type failure even if it is oversize too; an oversize request of an     *)
(* allowed type ran the type check, the read and the size check only; and *)
(* the statements any request ran are a prefix of that order.             *)
PipelineOrder ==
    <<"mime_check", "read", "size_check", "calculate_hash", "lookup",
      "process_image", "store", "respond">>

\* steps is PipelineOrder with some stages left out.
RECURSIVE InOrder(_, _)
InOrder(steps, order) ==
    IF steps = <<>> THEN TRUE
    ELSE IF order = <<>> THEN FALSE
    ELSE IF Head(steps) = Head(order) THEN InOrder(Tail(steps), Tail(order))
    ELSE InOrder(steps, Tail(order))

C5_ValidationFirst ==
    \A i \in ReqIds :
        Single(i) =>
            /\ InOrder(reqs[i].steps, PipelineOrder)
            /\ reqs[i].content_type \notin ALLOWED_MIME_TYPES =>
                  /\ Done(i) /\ Status(i) = 400
                  /\ Body(i).error = "Invalid format. Allowed: ALLOWED_MIME_TYPES"
                  /\ reqs[i].steps = <<"mime_check">>
                  /\ reqs[i].lookup = "" /\ reqs[i].engine = 0
            /\ (/\ reqs[i].content_type \in ALLOWED_MIME_TYPES
                /\ Bytes(reqs[i].content).len > MAX_FILE_SIZE
                /\ Done(i)) =>
                  /\ Status(i) = 413
                  /\ reqs[i].steps = <<"mime_check", "read", "size_check">>
                  /\ reqs[i].lookup = "" /\ reqs[i].engine = 0

(* The same oversize bytes posted twice: under a refused type they are    *)
(* answered with the type failure, under an allowed one with the size     *)
(* failure, and neither request was hashed, looked up or recognised.      *)
C5_Witness ==
    \E i, j \in ReqIds :
        /\ Single(i) /\ reqs[i].content_type = "text/plain"
        /\ Bytes(reqs[i].content).len > MAX_FILE_SIZE
        /\ Done(i) /\ Status(i) = 400 /\ reqs[i].steps = <<"mime_check">>
        /\ Single(j) /\ reqs[j].content_type = "image/gif"
        /\ reqs[j].content = reqs[i].content
        /\ Done(j) /\ Status(j) = 413 /\ reqs[j].engine = 0

(* C6: a batch of more than 10 uploads is refused as a whole with status  *)
(* 400 before any item is read or recognised (no result, no call of       *)
(* process_image); a batch of 10 or fewer is never refused by that check. *)
C6_BatchLimit ==
    \A i \in ReqIds :
        Batch(i) =>
            /\ Len(reqs[i].images) > 10 =>
                  /\ Done(i) /\ Status(i) = 400
                  /\ Body(i) = [success |-> FALSE,
                                error |-> "Batch limit exceeded (Max 10 images)"]
                  /\ reqs[i].batch_results = <<>>
                  /\ reqs[i].engine = 0
                  /\ reqs[i].steps = <<"limit_check">>
            /\ (Len(reqs[i].images) <= 10 /\ Done(i)) =>
                  /\ Status(i) = 200
                  /\ Len(Body(i).batch_results) = Len(reqs[i].images)

\* A batch of 11 has been refused; none of its uploads was processed.
C6_Witness ==
    \E i \in ReqIds :
        /\ Batch(i) /\ Len(reqs[i].images) = 11
        /\ Done(i) /\ Status(i) = 400
        /\ reqs[i].engine = 0 /\ reqs[i].batch_results = <<>>

(* C7: an accepted batch of n uploads answers n results in input order,   *)
(* the k-th carrying the k-th filename.  A failed item has success =      *)
(* false, no data and a non-empty error; a successful one has success =   *)
(* true, data and no error.  Each result depends on its own upload only:  *)
(* an undecodable upload fails, a decodable one the engine answers in     *)
(* time succeeds with what process_image gives for its bytes, whatever    *)
(* happened to the items around it.                                       *)
ExpectedData(img) ==
    LET result == process_image(img.content, "ok")
    IN  [success |-> TRUE,
         text |-> result.text,
         confidence |-> result.confidence,
         metadata |-> [width |-> Bytes(img.content).width,
                       height |-> Bytes(img.content).height,
                       format |-> Bytes(img.content).magic],
         cached |-> FALSE,
         processing_time_ms |-> 0]

C7_BatchItemsIsolated ==
    \A i \in ReqIds :
        (Batch(i) /\ Len(reqs[i].images) <= 10) =>
            LET images == reqs[i].images
                res == reqs[i].batch_results
            IN  /\ Len(res) <= Len(images)
                /\ Done(i) =>
                      /\ Status(i) = 200
                      /\ Body(i) = [batch_results |-> res]
                      /\ Len(res) = Len(images)
                /\ \A k \in 1..Len(res) :
                      /\ res[k].filename = images[k].filename
                      /\ res[k].success =>
                            /\ res[k].error = None
                            /\ res[k].data = ExpectedData(images[k])
                      /\ ~res[k].success =>
                            /\ res[k].data = None
                            /\ res[k].error # None
                            /\ res[k].error.str # ""
                      /\ Bytes(images[k].content).magic = "none" => ~res[k].success
                      /\ (/\ Bytes(images[k].content).magic # "none"
                          /\ ~Bytes(images[k].content).heavy)
                            => res[k].success

\* Item 2 of the batch failed; items 1 and 3 succeeded, and all ten are answered.
C7_Witness ==
    \E i \in ReqIds :
        /\ Batch(i) /\ Succeeded(i)
        /\ Len(Body(i).batch_results) = 10
        /\ Body(i).batch_results[1].success
        /\ ~Body(i).batch_results[2].success
        /\ Body(i).batch_results[3].success
        /\ Body(i).batch_results[3].filename = "o.gif"

(* C8: the batch path neither reads nor writes the cache.  No step of a   *)
(* batch request (refused, successful or partly failing) changes the      *)
(* cache, and process_image is called once for every item processed,      *)
(* also for an item whose fingerprint is a key of the cache.              *)
C8_BatchBypassesCache ==
    /\ [](\A i \in ReqIds :
            Batch(i) =>
                /\ reqs[i].engine = Len(reqs[i].batch_results)
                /\ Succeeded(i) => reqs[i].engine = Len(reqs[i].images)
                /\ Failed(i) => reqs[i].engine = 0)
    /\ [][\A i \in 1..Len(reqs') :
            (reqs'[i].kind = "batch" /\ StepsOf(i)) => ocr_cache' = ocr_cache]_vars

(* A batch whose upload was recognised although the single-image path had *)
(* cached its bytes before; the cache still holds that one entry.         *)
C8_Witness ==
    \E i, j \in ReqIds :
        /\ Single(i) /\ Succeeded(i) /\ reqs[i].lookup = "miss"
        /\ Batch(j) /\ Succeeded(j) /\ reqs[j].saw_cached
        /\ reqs[j].engine = Len(reqs[j].images)
        /\ \E k \in 1..Len(reqs[j].images) :
              /\ reqs[j].images[k].content = reqs[i].content
              /\ reqs[j].batch_results[k].success
              /\ reqs[j].batch_results[k].data.cached = FALSE
        /\ DOMAIN ocr_cache = {calculate_hash(reqs[i].content)}

(* C9: the cache is empty at startup and only grows: no step removes a    *)
(* key, so the keys of a later state include those of every earlier one.  *)
C9_CacheGrowsOnly ==
    /\ DOMAIN ocr_cache = {}
    /\ [][DOMAIN ocr_cache \subseteq DOMAIN ocr_cache']_vars

\* Two fingerprints are cached, the second stored after the first.
C9_Witness ==
    /\ Cardinality(DOMAIN ocr_cache) = 2
    /\ \A h \in DOMAIN ocr_cache : h \in DOMAIN stores

Blank(s) == \A k \in DOMAIN s : s[k] \in Whitespace

\* The rows the claim keeps, in the order the engine gave them.
KeptRows == SelectSeq(tess_data, LAMBDA t : t.conf > -1 /\ ~Blank(t.text))
KeptTexts == [k \in 1..Len(KeptRows) |-> strip(KeptRows[k].text)]
KeptConfs == [k \in 1..Len(KeptRows) |-> KeptRows[k].conf]

RECURSIVE SpaceJoined(_)
SpaceJoined(parts) ==
    IF parts = <<>> THEN <<>>
    ELSE IF Len(parts) = 1 THEN parts[1]
    ELSE parts[1] \o <<" ">> \o SpaceJoined(Tail(parts))

\* c, in hundredths, is the mean of confs rounded to a whole hundredth.
IsRoundedMean(c, confs) ==
    LET n == Len(confs)
        d == n * c - sum(confs)
    IN  /\ 2 * d <= n
        /\ -2 * d <= n

ConfidenceAsClaimed ==
    /\ KeptRows # <<>> =>
          /\ IsRoundedMean(ocr.confidence, KeptConfs)
          /\ ocr.confidence \in 0..100
    /\ KeptRows = <<>> => (ocr.text = <<>> /\ ocr.confidence = 0)

(* C11, as amended: process_image keeps exactly the rows whose confidence *)
(* is above -1 and whose text is not blank, in the order of the engine.   *)
(* The text it returns is clean_text of the trimmed kept texts joined by  *)
(* single spaces: it is that join itself when no kept text holds          *)
(* whitespace inside, and otherwise every run of whitespace inside a kept *)
(* text is one space.  The confidence is the mean of the kept             *)
(* confidences in hundredths, rounded, between 0 and 1; with no row kept  *)
(* the text is empty and the confidence 0.                                *)
C11_Aggregation ==
    ocr # None =>
        /\ ocr.text = clean_text(SpaceJoined(KeptTexts))
        /\ (\A k \in DOMAIN KeptTexts :
                \A p \in DOMAIN KeptTexts[k] : KeptTexts[k][p] \notin Whitespace)
              => ocr.text = SpaceJoined(KeptTexts)
        /\ ConfidenceAsClaimed

\* The rows (-1, "a"), (50, "b"), (90, " c ") give "b c" and 0.70.
C11_Witness ==
    /\ tess_data = SampleRows
    /\ ocr # None
    /\ ocr.text = <<"b", " ", "c">>
    /\ ocr.confidence = 70

(* C11 as the specification states it: the text returned is the trimmed   *)
(* kept texts joined by single spaces, whatever the rows.                 *)
C11_Original ==
    ocr # None =>
        /\ ocr.text = SpaceJoined(KeptTexts)
        /\ ConfidenceAsClaimed

\* ------------------------------------------- C12: the pipeline's stages
HitPath ==
    <<"mime_check", "read", "size_check", "calculate_hash", "lookup", "respond">>
MissPath ==
    <<"mime_check", "read", "size_check", "calculate_hash", "lookup",
      "process_image", "store", "respond">>

Has(steps, stage) == \E k \in DOMAIN steps : steps[k] = stage

\* What request i has run so far is a run of the pipeline, stage after stage.
StagesInOrder(i) ==
    LET steps == reqs[i].steps
        h == calculate_hash(reqs[i].content)
    IN  /\ InOrder(steps, PipelineOrder)
        /\ ~Done(i) => (reqs[i].pc = "read" /\ steps = <<"mime_check", "read">>)
        /\ Succeeded(i) =>
              \/ reqs[i].lookup = "hit" /\ steps = HitPath
              \/ /\ reqs[i].lookup = "miss" /\ steps = MissPath
                 /\ reqs[i].raised = ""
                 /\ h \in DOMAIN stores
                 /\ \E k \in DOMAIN stores[h] : stores[h][k] = Body(i)
                 /\ h \in DOMAIN ocr_cache
        /\ Failed(i) => (~Has(steps, "store") /\ ~Has(steps, "respond"))

\* Every single-image request received so far has ended with a response.
AllEnded == \A i \in ReqIds : Single(i) => (Done(i) /\ reqs[i].response # None)

(* C12: a single-image request runs the stages in the order received,     *)
(* validated, looked up, then on a miss recognised and stored, then       *)
(* responded; one that succeeds after a miss has stored the payload it    *)
(* answers under its fingerprint before it responds.  Every request       *)
(* received ends, with a success or with a failure, and what it ended     *)
(* with never changes afterwards: an ended request stays as it ended, and *)
(* again and again every request received so far has ended.               *)
C12_PipelineCompletes ==
    /\ [](\A i \in ReqIds : Single(i) => StagesInOrder(i))
    /\ [][\A i \in ReqIds : (Single(i) /\ Done(i)) => reqs'[i] = reqs[i]]_vars
    /\ []<>AllEnded

\* One request has ended as a stored success, another as a failure of the engine.
C12_Witness ==
    \E i, j \in ReqIds :
        /\ Single(i) /\ Succeeded(i) /\ reqs[i].steps = MissPath
        /\ ocr_cache[calculate_hash(reqs[i].content)] = Body(i)
        /\ Single(j) /\ Failed(j) /\ reqs[j].raised = "RuntimeError"

\* ------------------------------------------ C13: entries are not mutated
\* Request i ran its lookup in this step and found its fingerprint.
HitStep(i) == StepsOf(i) /\ reqs'[i].kind = "single" /\ reqs'[i].lookup = "hit"

(* C13: every entry of the cache says success = true and cached = false   *)
(* and is the payload as line 197 stored it; a step in which a request    *)
(* hits leaves every entry, with its cached and processing_time_ms, as it *)
(* was: the hit changed a copy.                                           *)
C13_EntriesImmutable ==
    /\ [](\A h \in DOMAIN ocr_cache :
              /\ ocr_cache[h].success = TRUE
              /\ ocr_cache[h].cached = FALSE
              /\ h \in DOMAIN stores
              /\ ocr_cache[h] = stores[h][1])
    /\ [][(\E i \in 1..Len(reqs') : HitStep(i)) => ocr_cache' = ocr_cache]_vars

(* A hit answered cached = true and a time that is not the stored one;    *)
(* the entry still says cached = false and holds its own time.            *)
C13_Witness ==
    \E i \in ReqIds :
        /\ Single(i) /\ Succeeded(i) /\ reqs[i].lookup = "hit"
        /\ LET entry == ocr_cache[calculate_hash(reqs[i].content)]
           IN  /\ Body(i).cached = TRUE /\ entry.cached = FALSE
               /\ Body(i).processing_time_ms # entry.processing_time_ms
               /\ Body(i).text = entry.text

\* ------------------------------------- C14: later requests are answered
\* Request j is resumed in this step while a request for the same bytes
\* has already been answered with a success.
ResumedAfterSuccess(j) ==
    /\ Single(j) /\ reqs[j].pc = "read" /\ reqs'[j] # reqs[j]
    /\ \E i \in ReqIds :
          /\ i # j /\ Single(i) /\ Succeeded(i)
          /\ reqs[i].content = reqs[j].content

(* C14: once a single-image request for some bytes has been answered with *)
(* a success, every single-image request for the same bytes that runs its *)
(* lookup afterwards, under whatever allowed type and name, is answered   *)
(* cached = true without a call of process_image.  A single-image answer  *)
(* with cached = false comes from a request that missed and for which     *)
(* process_image returned; the items of a batch, which has no lookup, say *)
(* cached = false and each had its own call.                              *)
C14_LaterRequestsHit ==
    /\ [](\A i \in ReqIds :
              /\ (Single(i) /\ Succeeded(i) /\ Body(i).cached = FALSE) =>
                    /\ reqs[i].lookup = "miss"
                    /\ reqs[i].engine = 1 /\ reqs[i].raised = ""
              /\ Batch(i) =>
                    /\ reqs[i].engine = Len(reqs[i].batch_results)
                    /\ \A k \in DOMAIN reqs[i].batch_results :
                          reqs[i].batch_results[k].success =>
                              reqs[i].batch_results[k].data.cached = FALSE)
    /\ [][\A j \in ReqIds :
              ResumedAfterSuccess(j) =>
                  /\ reqs'[j].pc = "done"
                  /\ reqs'[j].response.status_code = 200
                  /\ reqs'[j].response.content.cached = TRUE
                  /\ reqs'[j].lookup = "hit"
                  /\ reqs'[j].engine = 0]_vars

(* The same bytes posted as a.png and then as a.jpg: the first missed and *)
(* was recognised, the second was answered from the cache.                *)
C14_Witness ==
    \E i, j \in ReqIds :
        /\ i # j /\ Single(i) /\ Single(j)
        /\ reqs[i].content = reqs[j].content
        /\ reqs[i].content_type # reqs[j].content_type
        /\ reqs[i].filename # reqs[j].filename
        /\ Succeeded(i) /\ Body(i).cached = FALSE /\ reqs[i].engine = 1
        /\ Succeeded(j) /\ Body(j).cached = TRUE /\ reqs[j].engine = 0

\* ------------------------------------------------- C15: clean_text alone
\* s neither begins nor ends with whitespace and holds no two in a row.
Tidy(s) ==
    /\ s # <<>> => (s[1] \notin Whitespace /\ s[Len(s)] \notin Whitespace)
    /\ \A k \in 1..(Len(s) - 1) :
           ~(s[k] \in Whitespace /\ s[k + 1] \in Whitespace)

(* C15: what clean_text returns has no whitespace at its ends and no two  *)
(* whitespace characters in a row; it is empty for an empty or blank      *)
(* string; and clean_text applied to it returns it unchanged.             *)
C15_CleanTextIdempotent ==
    /\ Len(cleaned) >= 1 =>
          /\ Tidy(cleaned[1])
          /\ Blank(given_text) => cleaned[1] = <<>>
    /\ Len(cleaned) = 2 => cleaned[2] = cleaned[1]

\* "  a\n\tb   c " is returned as "a b c", twice.
C15_Witness ==
    /\ given_text = SampleText
    /\ cleaned = << <<"a", " ", "b", " ", "c">>, <<"a", " ", "b", " ", "c">> >>

====
